---- MODULE Spec2Model ----
(***************************************************************************)
(* Model of the vscode-status extension (src/src/extension.ts,             *)
(* src/src/activity.ts, src/src/apiClient.ts): the status bar indicator,   *)
(* the lodash throttle around sendActivity, the idle timer, the commands   *)
(* and the asynchronous submission cycle sendActivity -> sendStatusToAPI   *)
(* with its register-then-retry protocol.  Every await that hands control  *)
(* back to the host (snapshot building, HTTP calls, the 401 dialog) is a   *)
(* separate step; host events, commands and timers interleave with it.     *)
(***************************************************************************)
EXTENDS Integers, FiniteSets, Sequences, TLC

(* ------------------------------ bounds -------------------------------- *)

\* the clock runs from 0 to MaxTicks ticks
MaxTicks == 4

\* the count of throttled calls waiting for their invocation saturates here
MaxBurst == 2

\* host events and commands in one run
MaxEvents == 2

\* window state changes in one run, and the ticks of the clock, where only
\* the window changes state
MaxWindowEvents == 3

MaxWindowTicks == 5

\* the values Math.random() is drawn from
RandomSteps == 16

(* ------------------------- program constants --------------------------- *)

\* the longest details template, in placeholder tokens and pieces of text
MaxTemplate == 2

\* a file size is m * 1000^e bytes with e up to this power of 1000
MaxExponent == 5

STATUS_POST_INTERVAL_MS == 10000

\* the rounds of the loop of generateUserId
USER_ID_LOOP == 15

\* one tick of the model clock: half a throttle interval
TickMs == STATUS_POST_INTERVAL_MS \div 2

\* values of the idleTimeout setting (seconds) the model draws from
IdleTimeouts == {0, TickMs \div 1000}

None == 0 - 1

\* recorded in place of a status when a fetch rejects
Rejected == 0

\* recorded in place of a status when a 2xx response has a body response.json()
\* cannot parse
BadBody == 0 - 3

\* the handle of a timer that has run or was cleared
Spent == 0 - 2

\* classes of error message text, by the substrings the catch block looks for
MsgClasses == {"refused", "timeout", "tls", "other"}

\* HTTP status codes a response can carry
HttpStatuses == {200, 401, 404, 409, 429, 500}

\* a fetch either resolves with a status (and an error text) or rejects; a
\* 2xx response may carry a body that is no JSON, which matters where the code
\* parses it
Responses ==
    [type : {"http"}, status : HttpStatuses, msg : MsgClasses]
      \cup [type : {"reject"}, status : {Rejected}, msg : MsgClasses]
      \cup [type : {"badbody"}, status : {200}, msg : {"other"}]

ErrorLabels ==
    {"AuthFailed", "RateLimited", "ServerError", "ApiError", "ConnectionFailed",
     "RequestTimeout", "SslError", "ApiConnectionFailed"}

ListenerSet == {"editor", "document", "debugStart", "debugStop"}

(* ------------------------------- state --------------------------------- *)

VARIABLES
    phase,                  \* "loaded" (module evaluated) or "active"
    now,                    \* Date.now(), in ms
    cfg,                    \* the stored settings
    editor,                 \* host facts: active document, debug session, cursor
    statusBarIcon,          \* [text, command, shown]
    isDisconnectedFromAPI,
    state,                  \* module variable `state`: last snapshot or empty
    idle,                   \* module variable `idle`: handle of the last idle timer
    idleTimers,             \* idle timers still pending: [id, due]
    listeners,              \* event subscriptions held in `listeners`
    throttle,               \* internal state of throttledSendActivity
    cycles,                 \* submission cycles in flight
    lastDone,               \* the cycle the last step finished, if it finished one
    hist,                   \* observation record of the run
    nEvents,                \* host events and commands so far
    util                    \* the call of generateUserId, generateGuid or details
                            \* at work, with the text it has built so far

vars == <<phase, now, cfg, editor, statusBarIcon, isDisconnectedFromAPI, state,
          idle, idleTimers, listeners, throttle, cycles, lastDone, hist,
          nEvents, util>>

\* the variables of the extension proper
extension == <<phase, now, cfg, editor, statusBarIcon, isDisconnectedFromAPI, state,
               idle, idleTimers, listeners, throttle, cycles, lastDone, hist,
               nEvents>>

EmptyState == [timestamp |-> None]

(* ---------------------------- the settings ----------------------------- *)

\* src/src/util.ts getConfig: the settings the model draws from
\* cfg holds the settings read once (activate, and the module-level `config`
\* the window state handler reads); sendStatusToAPI calls getConfig() anew, and
\* the user may have edited suppressNotifications by then, so each cycle draws it
\* authToken stands for the stored credentials (apiUrl, authToken, userId):
\* 0 for those stored at activation, one more for each regeneration
Configs ==
    {c \in [enabled : BOOLEAN, workspaceExcluded : BOOLEAN, idleTimeout : IdleTimeouts,
            authToken : {0}] :
        /\ c.enabled \/ ~c.workspaceExcluded
        /\ c.idleTimeout = 0 => ~c.enabled}

\* a getConfig() that returns the credentials the module loaded with
getConfigAtLoad(stored) == [stored EXCEPT !.authToken = 0]

\* getConfig(): the settings as they are stored at the time of the call
getConfig(stored) == stored

\* commands generateNewUserId and generateNewToken: config.update stores new
\* credentials
Regenerate(stored) == [stored EXCEPT !.authToken = @ + 1]

(* --------------------- lodash throttle (debounce) ---------------------- *)

\* throttle(sendActivity, wait, {leading: false, trailing: true}) is
\* debounce(sendActivity, wait, {leading, trailing, maxWait: wait})
wait == STATUS_POST_INTERVAL_MS

\* a throttle built with the leading edge on
leadingOn == TRUE

leading == FALSE

\* a throttle built with the trailing edge off
trailingOff == FALSE

trailing == TRUE

ThrottleInit ==
    [lastCallTime |-> None, lastInvokeTime |-> 0, timerId |-> None, lastArgs |-> FALSE]

shouldInvoke(th, time) ==
    \/ th.lastCallTime = None
    \/ time - th.lastCallTime >= wait
    \/ time - th.lastCallTime < 0
    \/ time - th.lastInvokeTime >= wait

remainingWait(th, time) ==
    LET timeWaiting == wait - (time - th.lastCallTime)
        maxLeft == wait - (time - th.lastInvokeTime)
    IN  IF timeWaiting < maxLeft THEN timeWaiting ELSE maxLeft

invokeFunc(th, time) == [th EXCEPT !.lastArgs = FALSE, !.lastInvokeTime = time]

\* a call of throttledSendActivity() at `time`: the new throttle state and
\* whether sendActivity is invoked synchronously by this call
debounced(th, time) ==
    LET isInvoking == shouldInvoke(th, time)
        th1 == [th EXCEPT !.lastArgs = TRUE, !.lastCallTime = time]
    IN  IF isInvoking /\ th.timerId = None
          THEN \* leadingEdge
               LET th2 == [th1 EXCEPT !.lastInvokeTime = time, !.timerId = time + wait]
               IN  IF leading THEN [th |-> invokeFunc(th2, time), invoke |-> TRUE]
                              ELSE [th |-> th2, invoke |-> FALSE]
        ELSE IF isInvoking
          THEN \* maxing: restart the timer and invoke now
               [th |-> invokeFunc([th1 EXCEPT !.timerId = time + wait], time),
                invoke |-> TRUE]
        ELSE IF th.timerId = None
          THEN [th |-> [th1 EXCEPT !.timerId = time + wait], invoke |-> FALSE]
        ELSE [th |-> th1, invoke |-> FALSE]

\* the throttle's timer callback at `time`
timerExpired(th, time) ==
    IF shouldInvoke(th, time)
      THEN \* trailingEdge
           LET th1 == [th EXCEPT !.timerId = None]
           IN  IF trailing /\ th.lastArgs
                 THEN [th |-> invokeFunc(th1, time), invoke |-> TRUE]
                 ELSE [th |-> [th1 EXCEPT !.lastArgs = FALSE], invoke |-> FALSE]
      ELSE [th |-> [th EXCEPT !.timerId = time + remainingWait(th, time)],
            invoke |-> FALSE]

(* --------------------------- sendActivity ------------------------------ *)

\* what the host reports of the editor when a snapshot is built: whether a
\* debug session is active and where the cursor is; at start, no session and
\* the cursor at the origin
NoFacts == [debug |-> FALSE, cursor |-> 0]

\* the cycle a passing sendActivity() starts: activity(state) is called with
\* the `state` object of that moment and awaited
NewCycle(time, st) ==
    [start |-> time, pc |-> "activity", prevTs |-> st.timestamp, timestamp |-> None,
     suppress |-> FALSE, authToken |-> None,
     nStatus |-> 0, nRegister |-> 0, nInfo |-> 0, nErr |-> 0, nDialog |-> 0,
     nTrans |-> 0, first |-> None, reg |-> None, retry |-> None,
     outcome |-> "none", asOfLast |-> TRUE, changed |-> FALSE, before |-> "none"]

\* a sendActivity() without the guard on isDisconnectedFromAPI
sendActivityUnguarded(disc) == TRUE

\* sendActivity(): returns at once when disconnected in memory
sendActivityPasses(disc) == ~disc

\* the cycles in flight after the throttle did (inv) or did not invoke sendActivity
AfterInvoke(cyc, inv, disc, time, st) ==
    IF inv /\ sendActivityPasses(disc) THEN cyc \cup {NewCycle(time, st)} ELSE cyc

(* ------------------------- observation record -------------------------- *)

\* runTs: the timestamp of the first snapshot built since `state` was last
\* empty by construction or by the idle timer;
\* regenAt: when the credentials were last regenerated; reconnectAt: when the
\* reconnect command (disable, then enable) last ran;
\* pendingCalls: the throttled calls made since the last invocation; lastEd, changedSinceEv: the editor at the last throttled call and
\* whether it changed since; the other fields record what the invocations did
HistInit ==
    [lastSubmitAt |-> None, tooClose |-> FALSE, leadingSubmit |-> FALSE,
     skipped |-> FALSE, discSubmit |-> FALSE,
     pendingCalls |-> 0, invoked |-> "none",
     lastEd |-> NoFacts, changedSinceEv |-> FALSE,
     unfocusedAt |-> None, idleAt |-> None, resumed |-> FALSE,
     idleCall |-> FALSE, idleSubmit |-> FALSE,
     regenAt |-> None, reconnectAt |-> None, runTs |-> None]

\* the window is idle: it lost focus, the idle timeout passed and the idle
\* timer ran, and it has not regained focus since
Idling(h) == h.idleAt # None /\ ~h.resumed

\* the window lost focus at `time` (unfocusedAt: since when it is unfocused)
HistUnfocus(h, time) ==
    IF h.unfocusedAt = None
      THEN [h EXCEPT !.unfocusedAt = time, !.idleAt = None, !.resumed = FALSE]
      ELSE h

\* the window regained focus
HistFocus(h) == [h EXCEPT !.unfocusedAt = None, !.resumed = (h.idleAt # None)]

\* a host event reaches a subscription (idleCall: a throttled call made by
\* an event while the window is idle awaits its invocation)
HistEvent(h) == [h EXCEPT !.idleCall = @ \/ Idling(h)]

\* an idle timer ran at `time` (idleAt: when the idle period began)
HistIdle(h, time, idleTimeout) ==
    IF h.unfocusedAt # None /\ h.idleAt = None
         /\ time - h.unfocusedAt >= idleTimeout * 1000
      THEN [h EXCEPT !.idleAt = time, !.runTs = None]
      ELSE [h EXCEPT !.runTs = None]

\* a snapshot with timestamp ts was built
HistSnapshot(h, ts) == [h EXCEPT !.runTs = IF @ = None THEN ts ELSE @]

Sat(n) == IF n < MaxBurst THEN n + 1 ELSE MaxBurst

\* a throttled call was made at `time` with the editor as `ed`
HistCall(h, time, ed) ==
    [h EXCEPT !.pendingCalls = Sat(@),
              !.lastEd = ed,
              !.changedSinceEv = FALSE]

\* what an invocation found: no call to act on ("spurious"), one call ("one")
\* or several ("many")
InvokeKind(h) ==
    IF h.pendingCalls = 0 THEN "spurious"
    ELSE IF h.pendingCalls = 1 THEN "one"
    ELSE "many"

\* the throttle invoked sendActivity (inv) at `time`; wasIdle: by a call made
\* while no timer was pending
HistInvoke(h, inv, disc, time, wasIdle) ==
    IF ~inv THEN h
    ELSE LET h1 == [h EXCEPT !.invoked = InvokeKind(h),
                             !.pendingCalls = 0,
                             !.idleCall = FALSE]
         IN  IF sendActivityPasses(disc)
               THEN [h1 EXCEPT !.lastSubmitAt = time,
                               !.tooClose = @ \/ (h.lastSubmitAt # None /\
                                   time - h.lastSubmitAt < STATUS_POST_INTERVAL_MS),
                               !.leadingSubmit = @ \/ wasIdle,
                               !.discSubmit = @ \/ disc,
                               !.idleSubmit = @ \/ (Idling(h) /\ h.idleCall)]
               ELSE [h1 EXCEPT !.skipped = TRUE]

\* the editor changed without any throttled call
HistChange(h) == [h EXCEPT !.changedSinceEv = TRUE]

NoCycle == [NewCycle(None, EmptyState) EXCEPT !.pc = "none"]

\* a call of throttledSendActivity(): throttle, cycles and record afterwards
Call(th, cyc, h, disc, time, st, ed) ==
    LET r == debounced(th, time)
        h1 == HistCall(h, time, ed)
    IN  [th |-> r.th,
         cycles |-> AfterInvoke(cyc, r.invoke, disc, time, st),
         hist |-> HistInvoke(h1, r.invoke, disc, time, th.timerId = None)]

(* ------------------------------ util.ts -------------------------------- *)

\* Math.random() returns n / RandomSteps for some n in 0 .. RandomSteps - 1
RandomDraws == 0 .. (RandomSteps - 1)

\* Math.floor(Math.random() * k), and Math.random() * k | 0, for the draw n
Floor(n, k) == (n * k) \div RandomSteps

Digits == <<"0", "1", "2", "3", "4", "5", "6", "7", "8", "9",
            "a", "b", "c", "d", "e", "f">>

\* Number.prototype.toString(radix) of an integer v >= 0: its digits, the
\* most significant first
RECURSIVE toString(_, _)
toString(v, radix) ==
    IF v < radix THEN <<Digits[v + 1]>>
    ELSE Append(toString(v \div radix, radix), Digits[(v % radix) + 1])

\* of the text a call builds the model keeps the length, the first and the
\* last character; i is the loop counter (generateUserId) or the number of
\* template characters replace() has gone through (generateGuid)
NoCall ==
    [fn |-> "none", i |-> 0, len |-> 0, first |-> "", last |-> "", done |-> FALSE,
     activeTextEditor |-> FALSE, activeDebugSession |-> FALSE, raw |-> "none",
     template |-> <<>>, resolved |-> <<>>, fileName |-> <<>>, git |-> "none",
     gitBranch |-> <<>>, gitRepo |-> <<>>, size |-> [m |-> 0, e |-> 0],
     currentDivision |-> 0]

\* result += text
Concat(u, text) ==
    [u EXCEPT !.len = @ + Len(text),
              !.first = IF u.len = 0 THEN text[1] ELSE @,
              !.last = text[Len(text)]]

\* a first digit drawn from 0-9
FirstDigitFromZero(n) == Floor(n, 10)

\* generateUserId: Math.floor(Math.random() * 9) + 1
FirstDigit(n) == Floor(n, 9) + 1

\* generateUserId: Math.floor(Math.random() * 10)
NextDigit(n) == Floor(n, 10)

\* generateUserId is called: the first digit
GenerateUserId ==
    /\ util.fn = "none" \/ util.done
    /\ \E n \in RandomDraws :
         util' = Concat([NoCall EXCEPT !.fn = "userId"], toString(FirstDigit(n), 10))
    /\ UNCHANGED extension

\* one round of the loop: for (let i = 0; i < 15; i++)
GenerateUserIdLoop ==
    /\ util.fn = "userId" /\ ~util.done
    /\ util.i < USER_ID_LOOP
    /\ \E n \in RandomDraws :
         util' = Concat([util EXCEPT !.i = @ + 1], toString(NextDigit(n), 10))
    /\ UNCHANGED extension

\* the loop ends: return result
GenerateUserIdReturn ==
    /\ util.fn = "userId" /\ ~util.done
    /\ ~(util.i < USER_ID_LOOP)
    /\ util' = [util EXCEPT !.done = TRUE]
    /\ UNCHANGED extension

\* the template generateGuid fills in
GuidTemplate ==
    <<"x", "x", "x", "x", "x", "x", "x", "x", "-",
      "x", "x", "x", "x", "-",
      "4", "x", "x", "x", "-",
      "y", "x", "x", "x", "-",
      "x", "x", "x", "x", "x", "x", "x", "x", "x", "x", "x", "x">>

\* a replacer that treats y as x
GuidValuePlain(c, r) == r

\* the replacer: c === 'x' ? r : (r & 0x3 | 0x8)
GuidValue(c, r) == IF c = "x" THEN r ELSE (r % 4) + 8

\* generateGuid is called
GenerateGuid ==
    /\ util.fn = "none" \/ util.done
    /\ util' = [NoCall EXCEPT !.fn = "guid"]
    /\ UNCHANGED extension

\* replace(/[xy]/g, ...) goes through one more character of the template
GenerateGuidReplace ==
    /\ util.fn = "guid" /\ ~util.done
    /\ util.i < Len(GuidTemplate)
    /\ LET c == GuidTemplate[util.i + 1]
           u == [util EXCEPT !.i = @ + 1]
       IN  IF c \in {"x", "y"}
             THEN \E n \in RandomDraws :
                    util' = Concat(u, toString(GuidValue(c, Floor(n, 16)), 16))
             ELSE util' = Concat(u, <<c>>)
    /\ UNCHANGED extension

GenerateGuidReturn ==
    /\ util.fn = "guid" /\ ~util.done
    /\ util.i = Len(GuidTemplate)
    /\ util' = [util EXCEPT !.done = TRUE]
    /\ UNCHANGED extension

(* ----------------------------- activity.ts ----------------------------- *)

\* details(): the template the details string is resolved from
details(activeTextEditor, activeDebugSession) ==
    IF activeTextEditor
      THEN IF activeDebugSession THEN "detailsDebugging" ELSE "detailsEditing"
      ELSE "detailsIdling"

\* details() is called, with or without an active editor and debug session
Details ==
    /\ util.fn = "none" \/ util.done
    /\ \E ed \in BOOLEAN, dbg \in BOOLEAN :
         util' = [NoCall EXCEPT !.fn = "details", !.done = TRUE,
                                !.activeTextEditor = ed,
                                !.activeDebugSession = dbg,
                                !.raw = details(ed, dbg)]
    /\ UNCHANGED extension

(* ---------------------------- constants.ts ----------------------------- *)

\* a text is a sequence of pieces: a placeholder token, a character or a run
\* of other text.  EMPTY is the text with no piece
EMPTY == <<>>

\* two zero-width spaces
FAKE_EMPTY == <<"u200B", "u200B">>

FILE_SIZES == <<" bytes", "KB", "MB", "GB", "TB">>

UNKNOWN_GIT_BRANCH == <<"Unknown">>

UNKNOWN_GIT_REPO_NAME == <<"Unknown">>

REPLACE_KEYS ==
    [AppName |-> "{app_name}", CurrentColumn |-> "{current_column}",
     CurrentLine |-> "{current_line}", DirName |-> "{dir_name}",
     Empty |-> "{empty}", FileName |-> "{file_name}",
     FileSize |-> "{file_size}", FullDirName |-> "{full_dir_name}",
     GitBranch |-> "{git_branch}", GitRepoName |-> "{git_repo_name}",
     LanguageLowerCase |-> "{lang}", LanguageTitleCase |-> "{Lang}",
     LanguageUpperCase |-> "{LANG}", TotalLines |-> "{total_lines}",
     VSCodeWorkspace |-> "(Workspace)", Workspace |-> "{workspace}",
     WorkspaceAndFolder |-> "{workspace_and_folder}",
     WorkspaceFolder |-> "{workspace_folder}"]

(* ------------------------ activity.ts: templates ------------------------ *)

\* String.prototype.includes
includes(raw, key) == \E i \in 1 .. Len(raw) : raw[i] = key

\* String.prototype.indexOf of a key the text includes
indexOf(raw, key) ==
    CHOOSE i \in 1 .. Len(raw) :
        raw[i] = key /\ \A j \in 1 .. (i - 1) : raw[j] # key

\* String.prototype.replace with a string pattern: the first occurrence of
\* the key, if there is one, is replaced by the value
replace(raw, key, value) ==
    IF includes(raw, key)
      THEN SubSeq(raw, 1, indexOf(raw, key) - 1) \o value
             \o SubSeq(raw, indexOf(raw, key) + 1, Len(raw))
      ELSE raw

\* String.prototype.split('/') of a remote's fetch URL
FetchUrlSplit(git) ==
    IF git = "https" THEN <<"https:", "", "github.com", "user", "repo.git">>
    ELSE IF git = "ssh" THEN <<"git@github.com:user", "repo.git">>
    ELSE <<>>

\* what getGit() finds: no repository registered, repositories of which none
\* is selected, a selected repository with neither a HEAD name nor a remote,
\* a selected one on a branch with an https or an ssh remote
Gits == {"none", "unselected", "detached", "https", "ssh"}

\* git?.repositories.length
HasRepositories(git) == git # "none"

\* git.repositories.find((repo) => repo.ui.selected)
HasSelectedRepo(git) == git \in {"detached", "https", "ssh"}

\* selectedRepo.state.HEAD?.name, <<>> standing for undefined
HeadName(git) == IF git \in {"https", "ssh"} THEN <<"main">> ELSE <<>>

\* remotes[0]?.fetchUrl?.split('/')[1]?.replace('.git', ''), the string given
\* by its pieces and <<"">> the empty string; <<>> stands for undefined
RemoteName(git) ==
    IF git \notin {"https", "ssh"} THEN <<>>
    ELSE IF FetchUrlSplit(git)[2] = "repo.git" THEN <<"repo">>
    ELSE <<FetchUrlSplit(git)[2]>>

\* a ?? b
Coalesce(a, b) == IF a = <<>> THEN b ELSE a

\* 1000^k for k up to 2, the powers the comparisons and the bare integers need
Pow1000(k) == IF k = 0 THEN 1 ELSE IF k = 1 THEN 1000 ELSE 1000000

\* size > 1_000 for the size m * 1000^x, x < 0 after more divisions than e
ExceedsThousand(m, x) ==
    IF x >= 2 THEN m >= 1
    ELSE IF x >= 0 THEN m * Pow1000(x) > 1000
    ELSE m > 1000 * Pow1000(0 - x)

\* the while loop of fileDetails: the number of divisions made in all
RECURSIVE Divisions(_, _, _)
Divisions(m, x, currentDivision) ==
    IF ExceedsThousand(m, x) THEN Divisions(m, x - 1, currentDivision + 1)
    ELSE currentDivision

\* currentDivision of fileDetails for the size m * 1000^e
currentDivisionOf(size) ==
    IF ExceedsThousand(size.m, size.e)
      THEN Divisions(size.m, size.e - 1, 1)
      ELSE 0

\* Number.prototype.toFixed(2) of m * 1000^x, between 1 and 1000: the
\* hundredths rounded, written with a point before the last two digits
toFixed2(m, x) ==
    LET h == IF x = 1 THEN m * 100000
             ELSE IF x = 0 THEN m * 100
             ELSE (m + 5) \div 10
    IN  toString(h \div 100, 10) \o <<".">>
          \o <<Digits[((h % 100) \div 10) + 1], Digits[(h % 10) + 1]>>

\* FILE_SIZES[currentDivision], an index past the end giving undefined
FileSizeUnit(currentDivision) ==
    IF currentDivision < Len(FILE_SIZES) THEN FILE_SIZES[currentDivision + 1]
    ELSE "undefined"

\* the text {file_size} is replaced by
FileSizeText(size) ==
    LET d == currentDivisionOf(size)
    IN  (IF ExceedsThousand(size.m, size.e)
           THEN toFixed2(size.m, size.e - d)
           ELSE toString(size.m * Pow1000(size.e), 10))
          \o <<FileSizeUnit(d)>>

\* fileDetails(): the placeholders of the document, the selection and git
fileDetails(raw, w) ==
    LET r1 == replace(raw, REPLACE_KEYS.TotalLines, <<"120">>)
        r2 == replace(r1, REPLACE_KEYS.CurrentLine, <<"7">>)
        r3 == replace(r2, REPLACE_KEYS.CurrentColumn, <<"3">>)
        r4 == replace(r3, REPLACE_KEYS.FileSize, FileSizeText(w.size))
        r5 == IF HasRepositories(w.git)
                THEN replace(r4, REPLACE_KEYS.GitBranch,
                             Coalesce(HeadName(w.git), FAKE_EMPTY))
                ELSE replace(r4, REPLACE_KEYS.GitBranch, UNKNOWN_GIT_BRANCH)
    IN  IF HasRepositories(w.git)
          THEN replace(r5, REPLACE_KEYS.GitRepoName,
                       Coalesce(RemoteName(w.git), FAKE_EMPTY))
          ELSE replace(r5, REPLACE_KEYS.GitRepoName, UNKNOWN_GIT_REPO_NAME)

\* toLower, toTitle and toUpper of the file icon "typescript"
toLower(fileIcon) == <<"typescript">>

toTitle(fileIcon) == <<"Typescript">>

toUpper(fileIcon) == <<"TYPESCRIPT">>

\* details(): the string resolved from the template details() selects
resolveDetails(config, w) ==
    LET idlingRaw == replace(config.detailsIdling, REPLACE_KEYS.Empty, FAKE_EMPTY)
        workspaceFolderName ==
            IF w.workspaceFolder THEN <<"folder">> ELSE <<"No workspace">>
        workspaceName ==
            IF w.workspaceFolder
              THEN replace(<<"proj ", "(Workspace)">>,
                           REPLACE_KEYS.VSCodeWorkspace, EMPTY)
              ELSE workspaceFolderName
        workspaceAndFolder ==
            workspaceName \o (IF workspaceFolderName = FAKE_EMPTY THEN EMPTY
                              ELSE <<" - ">> \o workspaceFolderName)
        selected == config[details(TRUE, w.activeDebugSession)]
        r1 == IF w.workspaceFolder
                THEN replace(selected, REPLACE_KEYS.FullDirName, <<"folder/src">>)
                ELSE selected
        r2 == fileDetails(r1, w)
        r3 == replace(r2, REPLACE_KEYS.FileName, w.fileName)
        r4 == replace(r3, REPLACE_KEYS.DirName, <<"src">>)
        r5 == replace(r4, REPLACE_KEYS.Workspace, workspaceName)
        r6 == replace(r5, REPLACE_KEYS.WorkspaceFolder, workspaceFolderName)
        r7 == replace(r6, REPLACE_KEYS.WorkspaceAndFolder, workspaceAndFolder)
        r8 == replace(r7, REPLACE_KEYS.LanguageLowerCase, toLower("typescript"))
        r9 == replace(r8, REPLACE_KEYS.LanguageTitleCase, toTitle("typescript"))
    IN  IF w.activeTextEditor
          THEN replace(r9, REPLACE_KEYS.LanguageUpperCase, toUpper("typescript"))
          ELSE idlingRaw

\* activity(): the gitBranch field of the snapshot, <<>> when it is not set
gitBranch(git) ==
    IF HasRepositories(git) /\ HasSelectedRepo(git)
      THEN Coalesce(HeadName(git), UNKNOWN_GIT_BRANCH)
      ELSE <<>>

\* activity(): the gitRepo field of the snapshot, <<>> when it is not set
gitRepo(git) ==
    IF HasRepositories(git) /\ HasSelectedRepo(git)
      THEN Coalesce(RemoteName(git), UNKNOWN_GIT_REPO_NAME)
      ELSE <<>>

\* the pieces the templates of the model are made of
TemplatePieces ==
    {REPLACE_KEYS.FileName, REPLACE_KEYS.DirName, REPLACE_KEYS.Empty,
     REPLACE_KEYS.AppName, REPLACE_KEYS.GitBranch, "in "}

\* the templates a user can configure, up to MaxTemplate pieces long
Templates == UNION {[1 .. n -> TemplatePieces] : n \in 1 .. MaxTemplate}

\* basename(document.fileName): a file may be named like a placeholder
FileNames == {<<"a.ts">>, <<REPLACE_KEYS.DirName>>}

\* the sizes workspace.fs.stat reports: m * 1000^e bytes
FileSizes ==
    [m : {0, 1, 2, 500, 999, 1000, 1001, 1500, 2500}, e : 0 .. MaxExponent]

\* activity() builds a snapshot: details() resolves the configured template
\* and the git fields are set
Activity ==
    /\ util.fn = "none"
    /\ \E t \in Templates, ed \in BOOLEAN, dbg \in BOOLEAN, wf \in BOOLEAN,
          name \in FileNames, g \in Gits :
         LET config == [detailsIdling |-> t, detailsEditing |-> t,
                        detailsDebugging |-> t]
             w == [activeTextEditor |-> ed, activeDebugSession |-> dbg,
                   workspaceFolder |-> wf, fileName |-> name, git |-> g,
                   size |-> [m |-> 500, e |-> 0]]
         IN  util' = [NoCall EXCEPT !.fn = "activity", !.done = TRUE,
                                    !.activeTextEditor = ed,
                                    !.activeDebugSession = dbg,
                                    !.raw = details(ed, dbg),
                                    !.template = t,
                                    !.fileName = name,
                                    !.git = g,
                                    !.gitBranch = gitBranch(g),
                                    !.gitRepo = gitRepo(g),
                                    !.resolved = resolveDetails(config, w)]
    /\ UNCHANGED extension

\* fileDetails() resolves the file size placeholder of a document
FileDetails ==
    /\ util.fn = "none"
    /\ \E size \in FileSizes :
         LET w == [git |-> "none", size |-> size]
         IN  util' = [NoCall EXCEPT !.fn = "fileDetails", !.done = TRUE,
                                    !.template = <<REPLACE_KEYS.FileSize>>,
                                    !.size = size,
                                    !.currentDivision = currentDivisionOf(size),
                                    !.resolved =
                                        fileDetails(<<REPLACE_KEYS.FileSize>>, w)]
    /\ UNCHANGED extension

(* ------------------------------ Init ----------------------------------- *)

Init ==
    /\ phase = "loaded"
    /\ now = 0
    /\ cfg \in Configs
    /\ editor = NoFacts
    /\ statusBarIcon = [text |-> "Connecting", command |-> "none", shown |-> FALSE]
    /\ isDisconnectedFromAPI = FALSE
    /\ state = EmptyState
    /\ idle = None
    /\ idleTimers = {}
    /\ listeners = {}
    /\ throttle = ThrottleInit
    /\ cycles = {}
    /\ lastDone = NoCycle
    /\ hist = HistInit
    /\ nEvents = 0
    /\ util = NoCall

(* --------------------------- status bar -------------------------------- *)

\* a makeStatusBarRetryable() that binds no command
makeStatusBarRetryableUnbound(icon) == icon

makeStatusBarRetryable(icon) == [icon EXCEPT !.command = "reconnect"]

clearStatusBarCommand(icon) == [icon EXCEPT !.command = "none"]

\* connect(): the indicator after its assignments
ConnectIcon(icon) == clearStatusBarCommand([icon EXCEPT !.text = "Connected"])

\* cleanUp(): every listener disposed
cleanUp(ls) == {}

\* connect(): cleanUp(), then the four subscriptions pushed
ConnectListeners(ls) == cleanUp(ls) \cup ListenerSet

(* ----------------------- activation and commands ----------------------- *)

\* activate(): connect when enabled and not excluded, then register the
\* window state handler
Activate ==
    /\ phase = "loaded"
    /\ phase' = "active"
    /\ IF ~cfg.workspaceExcluded /\ cfg.enabled
         THEN LET r == Call(throttle, cycles, hist, FALSE, now, state, editor)
              IN  /\ statusBarIcon' = ConnectIcon([statusBarIcon EXCEPT !.shown = TRUE])
                  /\ isDisconnectedFromAPI' = FALSE
                  /\ listeners' = ConnectListeners(listeners)
                  /\ throttle' = r.th
                  /\ cycles' = r.cycles
                  /\ hist' = r.hist
         ELSE UNCHANGED <<statusBarIcon, isDisconnectedFromAPI, listeners, throttle,
                          cycles, hist>>
    /\ lastDone' = NoCycle
    /\ UNCHANGED <<now, cfg, editor, state, idle, idleTimers>>
    /\ UNCHANGED <<nEvents, util>>

\* the effect of vscodeStatus.reconnect on the indicator: disable(false) hides
\* it, enable(false) shows "Connecting", connect() overwrites that
ReconnectIcon(icon) ==
    ConnectIcon(clearStatusBarCommand(
        [icon EXCEPT !.text = "Connecting", !.shown = TRUE]))

\* command vscodeStatus.reconnect
Reconnect ==
    /\ phase = "active"
    /\ nEvents < MaxEvents
    /\ nEvents' = nEvents + 1
    /\ UNCHANGED util
    /\ LET r == Call(throttle, cycles, hist, FALSE, now, state, editor)
       IN  /\ throttle' = r.th
           /\ cycles' = r.cycles
           /\ hist' = [r.hist EXCEPT !.discSubmit = FALSE, !.skipped = FALSE,
                                     !.reconnectAt = now]
    /\ isDisconnectedFromAPI' = FALSE
    /\ listeners' = ConnectListeners(listeners)
    /\ statusBarIcon' = ReconnectIcon(statusBarIcon)
    /\ lastDone' = NoCycle
    /\ UNCHANGED <<phase, now, cfg, editor, state, idle, idleTimers>>

\* command vscodeStatus.disconnect: sets the flag and the indicator, nothing else
Disconnect ==
    /\ phase = "active"
    /\ nEvents < MaxEvents
    /\ nEvents' = nEvents + 1
    /\ UNCHANGED util
    /\ isDisconnectedFromAPI' = TRUE
    /\ statusBarIcon' = [statusBarIcon EXCEPT !.text = "Disconnected",
                                              !.command = "reconnect"]
    /\ hist' = [hist EXCEPT !.discSubmit = FALSE]
    /\ lastDone' = NoCycle
    /\ UNCHANGED <<phase, now, cfg, editor, state, idle, idleTimers, listeners,
                   throttle, cycles>>

(* ----------------------------- host events ----------------------------- *)

\* setTimeout returns a handle no pending timer has
NewTimerId(timers) ==
    CHOOSE i \in 1 .. (Cardinality(timers) + 1) :
        /\ \A t \in timers : t.id # i
        /\ \A j \in 1 .. (i - 1) : \E t \in timers : t.id = j

\* clearTimeout(handle)
clearTimeout(timers, handle) == {t \in timers : t.id # handle}

\* the editor changed to `ed`; the event `ev` reaches throttledSendActivity
\* when connect() subscribed to it
HostEvent(ev, ed) ==
    /\ phase = "active"
    /\ nEvents < MaxEvents
    /\ nEvents' = nEvents + 1
    /\ UNCHANGED util
    /\ editor' = ed
    /\ IF ev \in listeners
         THEN LET r == Call(throttle, cycles, HistEvent(hist),
                            isDisconnectedFromAPI, now, state, ed)
              IN  /\ throttle' = r.th
                  /\ cycles' = r.cycles
                  /\ hist' = r.hist
         ELSE /\ hist' = HistChange(hist)
              /\ UNCHANGED <<throttle, cycles>>
    /\ lastDone' = NoCycle
    /\ UNCHANGED <<phase, now, cfg, statusBarIcon, isDisconnectedFromAPI, state, idle,
                   idleTimers, listeners>>

\* another editor becomes active, with its own cursor position
OnDidChangeActiveTextEditor ==
    \E pos \in {0, 1} : HostEvent("editor", [editor EXCEPT !.cursor = pos])

\* typing changes the text and moves the cursor
OnDidChangeTextDocument ==
    HostEvent("document", [editor EXCEPT !.cursor = 1 - @])

OnDidStartDebugSession ==
    /\ ~editor.debug
    /\ HostEvent("debugStart", [editor EXCEPT !.debug = TRUE])

OnDidTerminateDebugSession ==
    /\ editor.debug
    /\ HostEvent("debugStop", [editor EXCEPT !.debug = FALSE])

\* the cursor moves: no event the extension subscribes to
OnDidChangeSelection ==
    HostEvent("selection", [editor EXCEPT !.cursor = 1 - @])

\* window.onDidChangeWindowState handler, as one of at most maxEvents events
WindowState(maxEvents) ==
    /\ phase = "active"
    /\ nEvents < maxEvents
    /\ nEvents' = nEvents + 1
    /\ UNCHANGED util
    /\ \E focused \in BOOLEAN :
         IF cfg.idleTimeout # 0
           THEN IF focused
                  THEN LET r == Call(throttle, cycles, HistFocus(hist),
                                     isDisconnectedFromAPI, now, state, editor)
                       IN  /\ idleTimers' = clearTimeout(idleTimers, idle)
                           /\ idle' = IF idle = None THEN None ELSE Spent
                           /\ throttle' = r.th
                           /\ cycles' = r.cycles
                           /\ hist' = r.hist
                  ELSE /\ idle' = NewTimerId(idleTimers)
                       /\ idleTimers' = idleTimers \cup
                              {[id |-> NewTimerId(idleTimers),
                                due |-> now + cfg.idleTimeout * 1000]}
                       /\ hist' = HistUnfocus(hist, now)
                       /\ UNCHANGED <<throttle, cycles>>
           ELSE UNCHANGED <<idle, idleTimers, throttle, cycles, hist>>
    /\ lastDone' = NoCycle
    /\ UNCHANGED <<phase, now, cfg, editor, statusBarIcon, isDisconnectedFromAPI,
                   state, listeners>>

OnDidChangeWindowState == WindowState(MaxEvents)

(* ------------------------------- timers -------------------------------- *)

\* time passes (the clock starts at activation), up to maxTicks ticks; a
\* timer that is due runs before the clock moves on
Clock(maxTicks) ==
    /\ phase = "active"
    /\ now < maxTicks * TickMs
    /\ throttle.timerId = None \/ throttle.timerId > now
    /\ \A t \in idleTimers : t.due > now
    /\ now' = now + TickMs
    /\ lastDone' = NoCycle
    /\ UNCHANGED <<phase, cfg, editor, statusBarIcon, isDisconnectedFromAPI, state,
                   idle, idleTimers, listeners, throttle, cycles, hist>>
    /\ UNCHANGED <<nEvents, util>>

Tick == Clock(MaxTicks)

\* the throttle's timer fires
ThrottleTimer ==
    /\ throttle.timerId # None
    /\ throttle.timerId <= now
    /\ LET r == timerExpired(throttle, now)
       IN  /\ throttle' = r.th
           /\ cycles' = AfterInvoke(cycles, r.invoke, isDisconnectedFromAPI, now,
                                    state)
           /\ hist' = HistInvoke(hist, r.invoke, isDisconnectedFromAPI, now, FALSE)
    /\ lastDone' = NoCycle
    /\ UNCHANGED <<phase, now, cfg, editor, statusBarIcon, isDisconnectedFromAPI,
                   state, idle, idleTimers, listeners>>
    /\ UNCHANGED <<nEvents, util>>

\* an idle timer fires: state = {}
IdleTimer ==
    /\ \E t \in idleTimers :
         /\ t.due <= now
         /\ idleTimers' = idleTimers \ {t}
         /\ idle' = IF idle = t.id THEN Spent ELSE idle
    /\ state' = EmptyState
    /\ hist' = HistIdle(hist, now, cfg.idleTimeout)
    /\ lastDone' = NoCycle
    /\ UNCHANGED <<phase, now, cfg, editor, statusBarIcon, isDisconnectedFromAPI,
                   listeners, throttle, cycles>>
    /\ UNCHANGED <<nEvents, util>>

(* ------------------------- sendStatusToAPI ----------------------------- *)

IsOk(resp) == resp.type = "http" /\ resp.status = 200

\* the switch on response.status
HttpLabel(status) ==
    CASE status = 401 -> "AuthFailed"
      [] status = 429 -> "RateLimited"
      [] status \in {500, 502, 503, 504} -> "ServerError"
      [] OTHER -> "ApiError"

\* shouldShowNotification after the switch
HttpNotifies(status) == status \notin {401, 429}

\* the catch block's classification of the error message
CatchLabel(m) ==
    CASE m = "refused" -> "ConnectionFailed"
      [] m = "timeout" -> "RequestTimeout"
      [] m = "tls" -> "SslError"
      [] OTHER -> "ApiConnectionFailed"

\* which branches of the catch block call showErrorMessage
CatchNotifies(m) == m # "timeout"

\* the cycle as it ends
Done(c, outcome) == [c EXCEPT !.pc = "done", !.outcome = outcome]

\* a success branch that leaves the indicator's text as it was
SuccessIconKeepsLabel(icon) == clearStatusBarCommand(icon)

\* a success branch that leaves the indicator's command bound
SuccessIconKeepsCommand(icon) == [icon EXCEPT !.text = "Connected"]

\* response.ok: the indicator after the success branch
SuccessIcon(icon) == clearStatusBarCommand([icon EXCEPT !.text = "Connected"])

\* a catch block that leaves out makeStatusBarRetryable()
CatchIconNotRetryable(icon, m) == [icon EXCEPT !.text = CatchLabel(m)]

\* the catch block: the indicator and the cycle's counters afterwards
CatchIcon(icon, m) == makeStatusBarRetryable([icon EXCEPT !.text = CatchLabel(m)])

CatchCycle(c, m) ==
    [c EXCEPT !.nErr = IF CatchNotifies(m) /\ ~c.suppress THEN @ + 1 ELSE @,
              !.nTrans = @ + 1]

\* the else branch of response.ok up to the throw, for a status that opens no
\* dialog: label, optional notification, retryable
HttpErrorIcon(icon, status) ==
    makeStatusBarRetryable([icon EXCEPT !.text = HttpLabel(status)])

\* an else branch that shows its message whatever suppressNotifications is
HttpErrorCycleAlways(c, status) ==
    [c EXCEPT !.nErr = IF HttpNotifies(status) THEN @ + 1 ELSE @,
              !.nTrans = @ + 1]

HttpErrorCycle(c, status) ==
    [c EXCEPT !.nErr = IF HttpNotifies(status) /\ ~c.suppress THEN @ + 1 ELSE @,
              !.nTrans = @ + 1]

\* the cycle ends through the catch block with message class m
EndCatch(c, icon, m) ==
    [icon |-> CatchIcon(icon, m), finished |-> TRUE,
     c |-> Done(CatchCycle(c, m), "error")]

\* the cycle ends in the success branch
EndSuccess(c, icon) ==
    [icon |-> SuccessIcon(icon), finished |-> TRUE,
     c |-> Done(c, "ok")]

\* case 401 with notifications on: label set, then the dialog is awaited
OpenDialog(c, icon) ==
    [icon |-> [icon EXCEPT !.text = "AuthFailed"], finished |-> FALSE,
     c |-> [c EXCEPT !.pc = "dialog", !.nDialog = @ + 1, !.nTrans = @ + 1]]

\* the last response of the cycle arrived: a rejected fetch and a 2xx body
\* that response.json() throws on go to the catch block; else the success
\* branch, or the status switch followed by the throw into the catch block
Settle(c, icon, resp) ==
    IF resp.type \in {"reject", "badbody"} THEN EndCatch(c, icon, resp.msg)
    ELSE IF IsOk(resp) THEN EndSuccess(c, icon)
    ELSE IF resp.status = 401 /\ ~c.suppress THEN OpenDialog(c, icon)
    ELSE EndCatch(HttpErrorCycle(c, resp.status), HttpErrorIcon(icon, resp.status),
                  resp.msg)

\* the record of a cycle that ends, with the label the indicator had before
\* the step that ended it
Observed(c, icon) == [c EXCEPT !.before = icon.text]

\* the variables a step of cycle c changes, from the result r of that step;
\* obs: whether the record of a cycle that ends is kept in lastDone
Step(c, r, obs) ==
    /\ statusBarIcon' = r.icon
    /\ cycles' = (cycles \ {c}) \cup (IF r.finished THEN {} ELSE {r.c})
    /\ lastDone' = IF r.finished /\ obs THEN Observed(r.c, statusBarIcon) ELSE NoCycle

\* the cycle goes on awaiting with the indicator untouched
Continue(c) == [icon |-> statusBarIcon, finished |-> FALSE, c |-> c]

\* activity(): the editor facts of the snapshot are those the host reports
\* when the snapshot is built; the throttled call carries no argument
SnapshotFacts(ed) == ed

\* await activity(state) returns: state = {...}, then sendStatusToAPI reads
\* the settings and posts the snapshot
ActivityDone ==
    /\ \E c \in cycles, suppressNotifications \in BOOLEAN :
         /\ c.pc = "activity"
         /\ LET ts == IF c.prevTs = None THEN now ELSE c.prevTs
            IN  /\ state' = [timestamp |-> ts]
                /\ hist' = HistSnapshot(hist, ts)
                /\ cycles' = (cycles \ {c}) \cup
                       {[c EXCEPT !.pc = "post1", !.timestamp = ts,
                                  !.suppress = suppressNotifications,
                                  !.authToken = getConfig(cfg).authToken,
                                  !.nStatus = @ + 1,
                                  !.asOfLast = (SnapshotFacts(editor) = hist.lastEd),
                                  !.changed = hist.changedSinceEv]}
    /\ lastDone' = NoCycle
    /\ UNCHANGED <<phase, now, cfg, editor, statusBarIcon, isDisconnectedFromAPI, idle,
                   idleTimers, listeners, throttle>>
    /\ UNCHANGED <<nEvents, util>>

\* what a request came back with, as the cycle's record keeps it: the HTTP
\* status, or Rejected when the fetch threw
RespKind(resp) ==
    IF resp.type = "reject" THEN Rejected
    ELSE IF resp.type = "badbody" THEN BadBody
    ELSE resp.status

\* the first postStatus settles; a 404 sends the registration request
Post1Response(obs) ==
    /\ \E c \in cycles, resp \in Responses :
         /\ c.pc = "post1"
         /\ LET c1 == [c EXCEPT !.first = RespKind(resp)]
            IN  IF resp.type = "http" /\ resp.status = 404
                  THEN Step(c, Continue([c1 EXCEPT !.pc = "register",
                                                   !.nRegister = @ + 1]), obs)
                  ELSE Step(c, Settle(c1, statusBarIcon, resp), obs)
    /\ UNCHANGED <<phase, now, cfg, editor, isDisconnectedFromAPI, state, idle,
                   idleTimers, listeners, throttle, hist>>
    /\ UNCHANGED <<nEvents, util>>

\* a registration flow that retries on success only
RegisterRetriesOnOkOnly(resp) == IsOk(resp)

\* registerResponse.ok or status 409: the submission is retried
RegisterRetries(resp) == resp.type = "http" /\ resp.status \in {200, 409}

\* the message the inner catch rethrows: "User registration failed: " followed
\* by the network error's text or by "Failed to register user. Status: N"
RegisterFailureMsg(resp) == IF resp.type = "reject" THEN resp.msg ELSE "other"

\* what registerUser can come back with: its body is never parsed
RegisterResponses == {r \in Responses : r.type # "badbody"}

\* registerUser settles
RegisterResponse(obs) ==
    /\ \E c \in cycles, resp \in RegisterResponses :
         /\ c.pc = "register"
         /\ LET c1 == [c EXCEPT !.reg = RespKind(resp)]
            IN  IF RegisterRetries(resp)
                  THEN Step(c, Continue(
                           [c1 EXCEPT !.pc = "post2", !.nStatus = @ + 1,
                                      !.nInfo = IF IsOk(resp) /\ ~c.suppress
                                                  THEN @ + 1 ELSE @]), obs)
                  ELSE Step(c, EndCatch(c1, statusBarIcon, RegisterFailureMsg(resp)),
                            obs)
    /\ UNCHANGED <<phase, now, cfg, editor, isDisconnectedFromAPI, state, idle,
                   idleTimers, listeners, throttle, hist>>
    /\ UNCHANGED <<nEvents, util>>

\* the retried postStatus settles
Post2Response(obs) ==
    /\ \E c \in cycles, resp \in Responses :
         /\ c.pc = "post2"
         /\ Step(c, Settle([c EXCEPT !.retry = RespKind(resp)], statusBarIcon, resp),
                 obs)
    /\ UNCHANGED <<phase, now, cfg, editor, isDisconnectedFromAPI, state, idle,
                   idleTimers, listeners, throttle, hist>>
    /\ UNCHANGED <<nEvents, util>>

\* the 401 dialog is dismissed: retryable, then the throw into the catch block
\* (m: the class of the 401 response's error text, first looked at there)
DialogDismissed(obs) ==
    /\ \E c \in cycles, m \in MsgClasses :
         /\ c.pc = "dialog"
         /\ Step(c, EndCatch(c, makeStatusBarRetryable(statusBarIcon), m), obs)
    /\ UNCHANGED <<phase, now, cfg, editor, isDisconnectedFromAPI, state, idle,
                   idleTimers, listeners, throttle, hist>>
    /\ UNCHANGED <<nEvents, util>>

\* the user picks 'Generate New Token and User ID': both generate commands
\* (each shows a message), the reconnect command, then the rest of case 401
DialogRegenerate(obs) ==
    /\ \E c \in cycles, m \in MsgClasses :
         /\ c.pc = "dialog"
         /\ LET call == Call(throttle, cycles, hist, FALSE, now, state, editor)
                r == EndCatch([c EXCEPT !.nInfo = @ + 2],
                              makeStatusBarRetryable(ReconnectIcon(statusBarIcon)), m)
            IN  /\ throttle' = call.th
                /\ hist' = [call.hist EXCEPT !.discSubmit = FALSE, !.skipped = FALSE,
                                             !.regenAt = now,
                                             !.reconnectAt = now]
                /\ statusBarIcon' = r.icon
                /\ cycles' = call.cycles \ {c}
                /\ lastDone' = IF obs THEN Observed(r.c, statusBarIcon) ELSE NoCycle
    /\ isDisconnectedFromAPI' = FALSE
    /\ listeners' = ConnectListeners(listeners)
    /\ cfg' = Regenerate(cfg)
    /\ UNCHANGED <<phase, now, editor, state, idle, idleTimers>>
    /\ UNCHANGED <<nEvents, util>>

(* --------------------------- specifications ---------------------------- *)

\* the extension in its host: commands, host events, timers and cycles
Next ==
    \/ Activate
    \/ Reconnect
    \/ Disconnect
    \/ OnDidChangeActiveTextEditor
    \/ OnDidChangeTextDocument
    \/ OnDidStartDebugSession
    \/ OnDidTerminateDebugSession
    \/ OnDidChangeSelection
    \/ OnDidChangeWindowState
    \/ Tick
    \/ ThrottleTimer
    \/ IdleTimer
    \/ ActivityDone
    \/ Post1Response(FALSE)
    \/ RegisterResponse(FALSE)
    \/ Post2Response(FALSE)
    \/ DialogDismissed(FALSE)
    \/ DialogRegenerate(FALSE)

Spec == Init /\ [][Next]_vars

\* the submission cycle observed: the commands, the timers and the cycles,
\* each cycle that ends leaving its record in lastDone
NextCycle ==
    \/ Activate
    \/ Reconnect
    \/ Disconnect
    \/ Tick
    \/ ThrottleTimer
    \/ ActivityDone
    \/ Post1Response(TRUE)
    \/ RegisterResponse(TRUE)
    \/ Post2Response(TRUE)
    \/ DialogDismissed(TRUE)
    \/ DialogRegenerate(TRUE)

SpecCycle == Init /\ [][NextCycle]_vars

\* the window gaining and losing focus, over a longer time: activation,
\* window state changes, the timers and the snapshots built; the requests
\* sent stay unanswered
NextWindow ==
    \/ Activate
    \/ WindowState(MaxWindowEvents)
    \/ Clock(MaxWindowTicks)
    \/ ThrottleTimer
    \/ IdleTimer
    \/ ActivityDone

SpecWindow == Init /\ [][NextWindow]_vars

\* the generators of util.ts and the template selection of activity.ts, each
\* call on inputs of its own
NextUtil ==
    \/ GenerateUserId
    \/ GenerateUserIdLoop
    \/ GenerateUserIdReturn
    \/ GenerateGuid
    \/ GenerateGuidReplace
    \/ GenerateGuidReturn
    \/ Details
    \/ Activity
    \/ FileDetails

SpecUtil == Init /\ [][NextUtil]_vars

(* ------------------------ the submission cycle ------------------------- *)

\* the cycles in flight and the cycle that just ended
CycleRecords == cycles \cup {lastDone}

Ended(c) == c.pc = "done"

\* C1: a cycle whose first status POST returned 404, whose register POST
\* succeeded and whose retried status POST succeeded made exactly two status
\* calls and one register call, leaves the indicator on "Connected" with no
\* command bound, and showed no error message and no error dialog
RetryLaw ==
    (Ended(lastDone) /\ lastDone.first = 404 /\ lastDone.reg = 200
        /\ lastDone.retry = 200)
      => /\ lastDone.nStatus = 2
         /\ lastDone.nRegister = 1
         /\ lastDone.outcome = "ok"
         /\ statusBarIcon.text = "Connected"
         /\ statusBarIcon.command = "none"
         /\ lastDone.nErr = 0
         /\ lastDone.nDialog = 0

RetryLawWitness ==
    /\ Ended(lastDone)
    /\ lastDone.first = 404 /\ lastDone.reg = 200 /\ lastDone.retry = 200
    /\ lastDone.nStatus = 2 /\ lastDone.nRegister = 1
    /\ statusBarIcon.text = "Connected"

\* C2: in every cycle the register endpoint is called only after a 404 on the
\* first status POST, a second status POST is made exactly when registration
\* returned success or 409, and no cycle makes more than two status calls or
\* more than one register call, a 404 on the retry included
RegisterOnlyAfter404 ==
    \A c \in CycleRecords :
        /\ c.nStatus <= 2
        /\ c.nRegister <= 1
        /\ c.nRegister = 1 <=> c.first = 404
        /\ c.nStatus = 2 <=> c.reg \in {200, 409}
        /\ c.retry # None => c.nStatus = 2
        /\ c.retry = 404 => Ended(c) /\ c.nRegister = 1

RegisterOnlyAfter404Witness ==
    /\ Ended(lastDone)
    /\ lastDone.first = 404 /\ lastDone.reg = 409 /\ lastDone.retry = 404
    /\ lastDone.nStatus = 2 /\ lastDone.nRegister = 1

\* C3: when registration after a 404 comes back with anything but success or
\* 409, the cycle ends there: one status call only, the indicator on an error
\* label bound to reconnect, the catch block run once, and one error message
\* at most (exactly one when messages are on and the failure is no timeout)
RegistrationFailureTerminal ==
    (Ended(lastDone) /\ lastDone.reg \notin {None, 200, 409})
      => /\ lastDone.nStatus = 1
         /\ lastDone.nRegister = 1
         /\ lastDone.retry = None
         /\ lastDone.outcome = "error"
         /\ statusBarIcon.text \in ErrorLabels
         /\ statusBarIcon.command = "reconnect"
         /\ lastDone.nTrans = 1
         /\ lastDone.nErr <= 1
         /\ lastDone.nDialog = 0
         /\ (~lastDone.suppress /\ statusBarIcon.text # "RequestTimeout")
               => lastDone.nErr = 1

RegistrationFailureTerminalWitness ==
    /\ Ended(lastDone)
    /\ lastDone.first = 404 /\ lastDone.reg = 500
    /\ lastDone.nStatus = 1 /\ lastDone.nErr = 1
    /\ statusBarIcon.text = "ApiConnectionFailed"

\* C9: no cycle shows more than one notification, counting information
\* messages, error messages and the 401 dialog
OneNotificationPerCycle ==
    \A c \in CycleRecords : c.nInfo + c.nErr + c.nDialog <= 1

\* C10: a cycle whose last response was HTTP 429, or that ended on the
\* request-timeout label, showed no error message and no dialog
RateLimitAndTimeoutSilent ==
    (Ended(lastDone)
        /\ \/ lastDone.first = 429
           \/ lastDone.retry = 429
           \/ statusBarIcon.text = "RequestTimeout")
      => lastDone.nErr + lastDone.nDialog = 0

(* --------------------- disconnect and the throttle --------------------- *)

\* C4: while isDisconnectedFromAPI is set, no invocation of sendActivity by
\* the throttle, whatever events led to it, starts a submission cycle
DisconnectedSticky == ~hist.discSubmit

\* an invocation found the extension disconnected and started nothing
DisconnectedStickyWitness ==
    /\ isDisconnectedFromAPI
    /\ hist.skipped
    /\ hist.invoked \in {"one", "many"}
    /\ ~hist.discSubmit

\* C5: from the disconnect command until a reconnect the indicator shows
\* "Disconnected" with the reconnect command bound
DisconnectedShown ==
    isDisconnectedFromAPI
      => statusBarIcon.text = "Disconnected" /\ statusBarIcon.command = "reconnect"

\* C6: once disconnected, no event subscription, no throttle timer and no idle
\* timer is left
DisconnectReleasesAll ==
    isDisconnectedFromAPI
      => listeners = {} /\ throttle.timerId = None /\ idleTimers = {}

TrailingEdgeOnly == ~hist.tooClose /\ ~hist.leadingSubmit

\* two submissions one interval apart, the first still in flight
TrailingEdgeOnlyWitness ==
    /\ hist.lastSubmitAt = 2 * STATUS_POST_INTERVAL_MS
    /\ \E c \in cycles : c.start = STATUS_POST_INTERVAL_MS
    /\ \E c \in cycles : c.start = 2 * STATUS_POST_INTERVAL_MS
    /\ ~hist.tooClose

(* ------------------------- the connection state ------------------------ *)

\* the status of the last status POST a cycle got an answer to
LastReply(c) == IF c.retry # None THEN c.retry ELSE c.first

\* C11: a cycle that ends in failure changes the indicator's error label once,
\* and the label it leaves is the one of the HTTP status it classified: 401
\* "AuthFailed", 429 "RateLimited", 500 "ServerError"
ClassifiedKindIsFinal ==
    (Ended(lastDone) /\ lastDone.outcome = "error")
      => /\ lastDone.nTrans = 1
         /\ LastReply(lastDone) = 401 => statusBarIcon.text = "AuthFailed"
         /\ LastReply(lastDone) = 429 => statusBarIcon.text = "RateLimited"
         /\ LastReply(lastDone) = 500 => statusBarIcon.text = "ServerError"

\* C12: a cycle whose last status POST returned 401 or 409, with messages
\* on, showed the dialog with its choice and no plain error message
ActionableChoiceOffered ==
    (Ended(lastDone) /\ ~lastDone.suppress /\ LastReply(lastDone) \in {401, 409})
      => lastDone.nDialog = 1 /\ lastDone.nErr = 0

\* C13: every cycle ends, in success or in the catch block; one that failed
\* leaves the indicator on an error label with the reconnect command bound and
\* the four event subscriptions in place
FailureLeavesRetryable ==
    /\ Ended(lastDone) => lastDone.outcome \in {"ok", "error"}
    /\ (Ended(lastDone) /\ lastDone.outcome = "error")
         => /\ statusBarIcon.text \in ErrorLabels
            /\ statusBarIcon.command = "reconnect"
            /\ listeners = ListenerSet

FailureLeavesRetryableWitness ==
    /\ Ended(lastDone)
    /\ lastDone.outcome = "error"
    /\ lastDone.first = Rejected
    /\ statusBarIcon.text = "SslError"
    /\ statusBarIcon.command = "reconnect"
    /\ listeners = ListenerSet

\* C14: a cycle whose last status POST came back 2xx with a JSON body ends in
\* the success branch, and a cycle that ends there leaves the indicator on
\* "Connected" with no command bound, whatever it showed before
SuccessConnects ==
    /\ (Ended(lastDone) /\ LastReply(lastDone) = 200) => lastDone.outcome = "ok"
    /\ (Ended(lastDone) /\ lastDone.outcome = "ok")
         => statusBarIcon.text = "Connected" /\ statusBarIcon.command = "none"

\* a success that found the indicator on an error label
SuccessConnectsWitness ==
    /\ Ended(lastDone)
    /\ lastDone.outcome = "ok"
    /\ lastDone.before \in ErrorLabels
    /\ statusBarIcon.text = "Connected"
    /\ statusBarIcon.command = "none"

\* C15: the indicator shows "Connected" only after a submission has returned
\* success, so never while no submission has been started at all
ConnectedOnlyAfterSubmission ==
    statusBarIcon.text = "Connected" => hist.lastSubmitAt # None

\* C16: in every state the indicator is bound to the reconnect command
\* exactly when its label is an error label or "Disconnected"
RetryableIffErrorOrDisconnected ==
    statusBarIcon.command = "reconnect"
      <=> statusBarIcon.text \in ErrorLabels \cup {"Disconnected"}

(* ----------------------- the gate and the idle timer -------------------- *)

\* connect() has not run: no reconnect command so far
NeverConnected == listeners = {}

\* C17: in a workspace excluded at activation, as long as no command connects,
\* no submission is started and the indicator is not shown
ExcludedWorkspaceSilent ==
    (cfg.workspaceExcluded /\ NeverConnected)
      => hist.lastSubmitAt = None /\ cycles = {} /\ ~statusBarIcon.shown

\* C18: with enabled false at activation, as long as no command connects, no
\* submission is started
DisabledSendsNothing ==
    (~cfg.enabled /\ NeverConnected) => hist.lastSubmitAt = None /\ cycles = {}

\* C19: while the window is idle, no submission is started for a document,
\* editor or debug event that occurred while it is idle
IdleSendsNothing == ~hist.idleSubmit

\* C20: once the idle timer has cleared the state and the window has regained
\* focus, the state the next snapshot takes its timestamp from holds no
\* timestamp from before the idle period
FreshAfterIdle ==
    (hist.idleAt # None /\ hist.resumed)
      => (state.timestamp = None \/ state.timestamp >= hist.idleAt)

\* C21: at most one idle timer is pending at any time
SingleIdleTimer == Cardinality(idleTimers) <= 1

\* C22: while the window is focused (idle timeout > 0) no idle timer is
\* pending
FocusCancelsIdleTimers == hist.unfocusedAt = None => idleTimers = {}

(* ------------------------- cycles and settings ------------------------- *)

\* C23: while a cycle awaits an HTTP response or the 401 dialog, no other
\* cycle is in flight
SingleFlight ==
    \A c \in cycles :
        c.pc \in {"post1", "register", "post2", "dialog"} => cycles = {c}

\* C24: a cycle that started after the credentials were last regenerated
\* sends its requests with the regenerated credentials
FreshConfig ==
    \A c \in CycleRecords :
        (c.pc \notin {"none", "activity"} /\ hist.regenAt # None
            /\ c.start > hist.regenAt)
          => c.authToken = cfg.authToken

\* the submission after a regeneration posts with the new credentials
FreshConfigWitness ==
    /\ hist.regenAt = STATUS_POST_INTERVAL_MS
    /\ cfg.authToken = 1
    /\ \E c \in cycles :
         /\ c.start = 2 * STATUS_POST_INTERVAL_MS
         /\ c.pc = "post1"
         /\ c.authToken = 1

\* C25: a cycle that read suppressNotifications as set shows no information
\* message, no error message and no dialog, however it goes
SuppressedIsSilent ==
    \A c \in CycleRecords : c.suppress => c.nInfo + c.nErr + c.nDialog = 0

\* a suppressed cycle that registered the user and then failed on the retry
SuppressedIsSilentWitness ==
    /\ Ended(lastDone)
    /\ lastDone.suppress
    /\ lastDone.first = 404 /\ lastDone.reg = 200 /\ lastDone.retry = 401
    /\ lastDone.nInfo + lastDone.nErr + lastDone.nDialog = 0
    /\ statusBarIcon.text = "SslError"

(* ------------------- the generators and the templates ------------------ *)

DecimalDigits == {"0", "1", "2", "3", "4", "5", "6", "7", "8", "9"}

HexDigits == DecimalDigits \cup {"a", "b", "c", "d", "e", "f"}

\* C26: the user id under construction starts with a digit 1-9, every
\* character appended is a decimal digit, one per round, and the id returned
\* has 16 characters
UserIdWellFormed ==
    util.fn = "userId"
      => /\ util.first \in DecimalDigits \ {"0"}
         /\ util.last \in DecimalDigits
         /\ util.len = util.i + 1
         /\ util.done => util.len = 16

UserIdWellFormedWitness ==
    /\ util.fn = "userId"
    /\ util.done
    /\ util.len = 16
    /\ util.first = "9"
    /\ util.last = "0"

\* C27: the character of the token at each position is a hyphen at positions
\* 9, 14, 19 and 24, the digit 4 at position 15, one of 8, 9, a, b at position
\* 20 and a hexadecimal digit elsewhere, and the token returned has 36
\* characters
GuidWellFormed ==
    (util.fn = "guid" /\ util.len >= 1)
      => /\ util.len = util.i
         /\ util.len \in {9, 14, 19, 24} <=> util.last = "-"
         /\ util.len \notin {9, 14, 19, 24} => util.last \in HexDigits
         /\ util.len = 15 => util.last = "4"
         /\ util.len = 20 => util.last \in {"8", "9", "a", "b"}
         /\ util.done => util.len = 36

\* the variant nibble has just been written
GuidWellFormedWitness ==
    /\ util.fn = "guid"
    /\ util.len = 20
    /\ util.last = "b"
    /\ util.first = "f"

\* C28: the template is the debugging one if a debug session is active, else
\* the editing one if a document is focused, else the idling one
TemplateSelection ==
    util.fn = "details"
      => util.raw = IF util.activeDebugSession THEN "detailsDebugging"
                    ELSE IF util.activeTextEditor THEN "detailsEditing"
                    ELSE "detailsIdling"

(* ---------------------------- the snapshot ----------------------------- *)

\* C29: once the reconnect command has run disable and enable, the state the
\* next snapshot takes its fields from holds no timestamp from before it
DisableDiscardsSnapshot ==
    hist.reconnectAt # None
      => (state.timestamp = None \/ state.timestamp >= hist.reconnectAt)

\* C30: as long as `state` is not cleared, every snapshot built, and so every
\* request body, carries the timestamp of the first snapshot built since it
\* was empty
TimestampCarried == state.timestamp # None => state.timestamp = hist.runTs

(* ------------------------ the resolved details -------------------------- *)

\* C31: when no repository is registered or none is selected, the gitBranch
\* and gitRepo fields of the snapshot are "Unknown" and a git branch
\* placeholder of the resolved template is replaced by the zero-width marker
GitFallbackMarkers ==
    (util.fn = "activity" /\ util.git \in {"none", "unselected"})
      => /\ util.gitBranch = UNKNOWN_GIT_BRANCH
         /\ util.gitRepo = UNKNOWN_GIT_REPO_NAME
         /\ (util.activeTextEditor /\ util.template = <<REPLACE_KEYS.GitBranch>>)
              => util.resolved = FAKE_EMPTY

\* the placeholder tokens of REPLACE_KEYS
RecognizedTokens ==
    {REPLACE_KEYS[k] : k \in DOMAIN REPLACE_KEYS} \ {REPLACE_KEYS.VSCodeWorkspace}

\* C32: the details resolved for a document contain no placeholder token of
\* the template: every occurrence of every token, the application name token
\* and a token that occurs twice included, has been replaced by its value
EveryTokenReplaced ==
    (util.fn = "activity" /\ util.activeTextEditor
       /\ util.fileName = <<"a.ts">>)
      => \A i \in 1 .. Len(util.resolved) :
           util.resolved[i] \notin RecognizedTokens

\* the value the code computes for a token of the model's templates, and the
\* piece itself for other text: each piece of a template taken on its own
ValueOf(piece, u) ==
    IF piece = REPLACE_KEYS.FileName THEN u.fileName
    ELSE IF piece = REPLACE_KEYS.DirName THEN <<"src">>
    ELSE <<piece>>

\* every piece of the template replaced independently of the others
RECURSIVE Independent(_, _)
Independent(template, u) ==
    IF template = <<>> THEN <<>>
    ELSE ValueOf(Head(template), u) \o Independent(Tail(template), u)

\* C33: for a template of file name and directory name tokens, each at most
\* once, the resolved string is the one that replaces every token on its own:
\* a value put in for one token is not searched for the next token
SubstitutionIndependent ==
    (util.fn = "activity" /\ util.activeTextEditor
       /\ util.template \in {<<REPLACE_KEYS.FileName>>,
                             <<REPLACE_KEYS.FileName, REPLACE_KEYS.DirName>>,
                             <<REPLACE_KEYS.DirName, REPLACE_KEYS.FileName>>,
                             <<REPLACE_KEYS.FileName, "in ">>})
      => util.resolved = Independent(util.template, util)

\* C34: whichever template is selected, idling, editing or debugging, an empty
\* placeholder in it is rendered as the two zero-width characters, never as
\* the token text or as nothing
EmptyRendered ==
    (util.fn = "activity" /\ util.template = <<REPLACE_KEYS.Empty>>)
      => util.resolved = FAKE_EMPTY

\* C35: for every file size the number of divisions by 1000 is the number made
\* while the value exceeds 1000, it is an index of FILE_SIZES and the unit is
\* the entry at it, and the number has two decimals exactly when the size
\* exceeds 1000; 500, 1000, 1500 and 2 500 000 bytes are rendered as
\* "500 bytes", "1000 bytes", "1.50KB" and "2.50MB"
FileSizeRendering ==
    util.fn = "fileDetails"
      => LET m == util.size.m
             e == util.size.e
             d == util.currentDivision
             text == util.resolved
         IN  /\ d < Len(FILE_SIZES)
             /\ text[Len(text)] = FILE_SIZES[d + 1]
             /\ ~ExceedsThousand(m, e - d)
             /\ d > 0 => ExceedsThousand(m, e - d + 1)
             /\ ExceedsThousand(m, e) <=> includes(text, ".")
             /\ ExceedsThousand(m, e) => text[Len(text) - 3] = "."
             /\ (m = 500 /\ e = 0) => text = <<"5", "0", "0", " bytes">>
             /\ (m = 1000 /\ e = 0) => text = <<"1", "0", "0", "0", " bytes">>
             /\ (m = 1500 /\ e = 0) => text = <<"1", ".", "5", "0", "KB">>
             /\ (m = 2500 /\ e = 1) => text = <<"2", ".", "5", "0", "MB">>

(* ------------------------- after a reconnect ---------------------------- *)

\* C36: once the reconnect command has run, and until a submission started
\* after it has been made, the indicator reads Connecting or Connected and
\* carries no command: no submission from before the reconnect, the 401 cycle
\* whose dialog ran the reconnect included, puts an error label back
ReconnectHolds ==
    (/\ phase = "active"
     /\ hist.reconnectAt # None
     /\ ~isDisconnectedFromAPI
     /\ hist.lastSubmitAt = None \/ hist.lastSubmitAt < hist.reconnectAt)
      => /\ statusBarIcon.text \in {"Connecting", "Connected"}
         /\ statusBarIcon.command = "none"

====
